---- MODULE Spec2Model ----
(***************************************************************************)
(* Credential pool of sora2api: TokenManager (src/services/token_manager.py)*)
(* and LoadBalancer (src/services/load_balancer.py).                        *)
(*                                                                         *)
(* The persistent store (core.database.Database) and the image lock        *)
(* (services.token_lock.TokenLock) are collaborators whose code is not part *)
(* of the two source files; their operations are modelled from the design   *)
(* document (PersistentStore in section 6, ExclusivityLock in section 4.3)  *)
(* and carry the prefix Db / Lock.                                          *)
(*                                                                         *)
(* Every handler is one action.  The variable last records the operation    *)
(* that was executed most recently together with its arguments and its      *)
(* return value, so that a property of "the value returned by               *)
(* select_token" is a property of the state right after that call.          *)
(*                                                                         *)
(* The handlers that write the status and the counters are given a second   *)
(* time, one action per awaited store call, for the specifications in which *)
(* coroutines interleave or a store call raises (variable calls).           *)
(***************************************************************************)
EXTENDS Integers, FiniteSets

\* ------------------------------------------------------------------ bounds
\* Counters are capped in the guards of the actions that increment them.
MaxErrorCount == 2
MaxVideoCount == 2
MaxImageCount == 1
\* Largest value an administrator gives a threshold in the model.
MaxThreshold == 2
\* The clock runs from 0 to MaxTime hours and advances TickHours at a time.
MaxTime == 18
TickHours == 6
\* config.image_timeout, the lock timeout handed to TokenLock, in clock units.
LockTimeout == 12

\* --------------------------------------------------------------- constants
\* timedelta(hours=12) in check_and_apply_cooldown.
CooldownHours == 12

\* Python's None for an Optional[Token] result, an unset cooled_until and an
\* absent lock record.
NoToken == 0
NoTime == -1
NoLock == -1
\* The None get_token_stats returns for an id without a row; also the value of
\* a local variable a coroutine has not assigned yet.
NoStats == -1
\* The IndexError random.choice raises on an empty list.
Raised == -2

\* A call that raised an exception reports one of these instead of a value:
\* the two ValueErrors of add_token, and the NotFound of the design document's
\* error taxonomy.
Conflict == -3
InvalidJwt == -4
NotFound == -5

\* Access tokens.  jwt.decode accepts every value except NotJwt; NoValue is
\* the token column of an id that has no row.
NoValue == -1
NotJwt == 0
Secrets == {1, 2, 3}
\* Remarks an administrator attaches to a credential; NoRemark is None.
NoRemark == 0
Remarks == {1, 2}
\* The metadata the three enrichment calls of add_token supply.
Fields == {"user", "plan", "sora2"}

\* Coroutines that run TokenManager calls concurrently on the event loop.
Procs == {1, 2, 3}

\* Identifiers a caller may name; the store holds the subset tokens.
TokenIds == {1, 2, 3}
Callers == {1, 2}
\* A caller whose request is not followed after select_token returns.
Observer == 0

VARIABLES
    tokens,                    \* ids of the rows of the tokens table
    is_active,                 \* Token.is_active
    error_count,               \* TokenStats.error_count
    image_count,               \* TokenStats.image_count
    video_count,               \* TokenStats.video_count
    cooled_until,              \* Token.cooled_until, NoTime when unset
    error_ban_threshold,       \* AdminConfig.error_ban_threshold
    video_cooldown_threshold,  \* AdminConfig.video_cooldown_threshold
    locks,                     \* TokenLock: id -> acquired_at, NoLock when absent
    now,                       \* the clock (datetime.now / time.time), in hours
    obtained,                  \* caller -> credential its image request selected
    acquired,                  \* caller -> its acquire_lock call succeeded
    token_value,               \* Token.token, the secret, NoValue for no row
    remark,                    \* Token.remark
    metadata,                  \* the enrichment fields of a row that the API supplied
    calls,                     \* coroutine -> the call it is executing, store call by store call
    errors_since_reset,        \* history: record_error calls since the last reset
    last                       \* the most recent operation, arguments and result

vars == <<tokens, is_active, error_count, image_count, video_count, cooled_until,
          error_ban_threshold, video_cooldown_threshold, locks, now,
          obtained, acquired, token_value, remark, metadata, calls,
          errors_since_reset, last>>

poolVars == <<tokens, is_active, error_count, image_count, video_count, cooled_until>>
configVars == <<error_ban_threshold, video_cooldown_threshold>>
callerVars == <<obtained, acquired>>
admissionVars == <<token_value, remark, metadata>>

\* A coroutine that is executing no call.
Idle == [op |-> "none", tok |-> NoToken, flag |-> FALSE, pc |-> "idle",
         stats |-> NoStats, threshold |-> NoStats, failed |-> FALSE,
         valid |-> FALSE]

Op(name, tok, flag, res) == [op |-> name, tok |-> tok, flag |-> flag, res |-> res]

\* History of the calls made on a row: the number of record_error calls since
\* the row was last reset by record_success or enable_token.
Counted(token_id, n) ==
    IF token_id \in tokens THEN [errors_since_reset EXCEPT ![token_id] = n]
    ELSE errors_since_reset

\* ------------------------------------------------------- persistent store
\* An UPDATE of a row that does not exist changes nothing.
DbSet(column, token_id, value) ==
    IF token_id \in tokens THEN [column EXCEPT ![token_id] = value] ELSE column

DbUpdateTokenStatus(token_id, active) == DbSet(is_active, token_id, active)

DbResetErrorCount(token_id) == DbSet(error_count, token_id, 0)

DbIncrementErrorCount(token_id) == DbSet(error_count, token_id, error_count[token_id] + 1)

DbIncrementVideoCount(token_id) == DbSet(video_count, token_id, video_count[token_id] + 1)

DbIncrementImageCount(token_id) == DbSet(image_count, token_id, image_count[token_id] + 1)

DbUpdateTokenCooldown(token_id, until) == DbSet(cooled_until, token_id, until)

\* get_token_stats returns None for an id without a row.
DbHasStats(token_id) == token_id \in tokens

\* A credential is cooling while its cooled_until is set and in the future.
Cooling(t) == cooled_until[t] # NoTime /\ cooled_until[t] > now

\* The tokens with status Active that are not cooled down.
DbGetActiveTokens == {t \in tokens : is_active[t] /\ ~Cooling(t)}

DbGetAllTokens == tokens

\* ------------------------------------------------------------- token lock
\* A lock is held iff a record exists and now - acquired_at < timeout.
LockIsLocked(token_id) ==
    locks[token_id] # NoLock /\ now - locks[token_id] < LockTimeout


\* acquire creates the record iff no currently held record exists.
LockAcquire(token_id) ==
    IF LockIsLocked(token_id) THEN locks ELSE [locks EXCEPT ![token_id] = now]

\* release removes the record if present.
LockRelease(token_id) == [locks EXCEPT ![token_id] = NoLock]

\* ----------------------------------------------------------- TokenManager
GetActiveTokens_All == DbGetAllTokens

GetActiveTokens == DbGetActiveTokens

UpdateTokenStatus(token_id, active) ==
    /\ is_active' = DbUpdateTokenStatus(token_id, active)
    /\ last' = Op("update_token_status", token_id, active, NoToken)
    /\ UNCHANGED <<tokens, error_count, image_count, video_count, cooled_until,
                   configVars, locks, now, callerVars,
                   admissionVars, calls, errors_since_reset>>

EnableToken_NoReset(token_id) ==
    /\ is_active' = DbUpdateTokenStatus(token_id, TRUE)
    /\ errors_since_reset' = Counted(token_id, 0)
    /\ last' = Op("enable_token", token_id, TRUE, NoToken)
    /\ UNCHANGED <<tokens, error_count, image_count, video_count, cooled_until,
                   configVars, locks, now, callerVars,
                   admissionVars, calls>>

EnableToken(token_id) ==
    /\ is_active' = DbUpdateTokenStatus(token_id, TRUE)
    /\ error_count' = DbResetErrorCount(token_id)
    /\ errors_since_reset' = Counted(token_id, 0)
    /\ last' = Op("enable_token", token_id, TRUE, NoToken)
    /\ UNCHANGED <<tokens, image_count, video_count, cooled_until,
                   configVars, locks, now, callerVars,
                   admissionVars, calls>>

DisableToken(token_id) ==
    /\ is_active' = DbUpdateTokenStatus(token_id, FALSE)
    /\ last' = Op("disable_token", token_id, FALSE, NoToken)
    /\ UNCHANGED <<tokens, error_count, image_count, video_count, cooled_until,
                   configVars, locks, now, callerVars,
                   admissionVars, calls, errors_since_reset>>

RecordUsage_BothCounters(token_id, is_video) ==
    /\ video_count[token_id] < MaxVideoCount
    /\ image_count[token_id] < MaxImageCount
    /\ video_count' = DbIncrementVideoCount(token_id)
    /\ image_count' = DbIncrementImageCount(token_id)
    /\ last' = Op("record_usage", token_id, is_video, NoToken)
    /\ UNCHANGED <<tokens, is_active, error_count, cooled_until,
                   configVars, locks, now, callerVars,
                   admissionVars, calls, errors_since_reset>>

\* update_token_usage stamps last_used_at and use_count, which no operation of
\* the pool reads; the counters follow.
RecordUsage(token_id, is_video) ==
    /\ IF is_video
         THEN /\ video_count[token_id] < MaxVideoCount
              /\ video_count' = DbIncrementVideoCount(token_id)
              /\ UNCHANGED image_count
         ELSE /\ image_count[token_id] < MaxImageCount
              /\ image_count' = DbIncrementImageCount(token_id)
              /\ UNCHANGED video_count
    /\ last' = Op("record_usage", token_id, is_video, NoToken)
    /\ UNCHANGED <<tokens, is_active, error_count, cooled_until,
                   configVars, locks, now, callerVars,
                   admissionVars, calls, errors_since_reset>>

ShouldBan_Strict(stats_error_count, threshold) == stats_error_count > threshold

ShouldBan_AtStartup(stats_error_count, threshold) == stats_error_count >= MaxThreshold

ShouldBan(stats_error_count, threshold) == stats_error_count >= threshold

RecordError_RaisesOnBan(token_id) ==
    /\ error_count[token_id] < MaxErrorCount
    /\ error_count' = DbIncrementErrorCount(token_id)
    /\ errors_since_reset' = Counted(token_id, errors_since_reset[token_id] + 1)
    /\ IF DbHasStats(token_id) /\ ShouldBan(error_count'[token_id], error_ban_threshold)
         THEN /\ is_active' = DbUpdateTokenStatus(token_id, FALSE)
              /\ last' = Op("record_error", token_id, FALSE, Raised)
         ELSE /\ UNCHANGED is_active
              /\ last' = Op("record_error", token_id, FALSE, NoToken)
    /\ UNCHANGED <<tokens, image_count, video_count, cooled_until,
                   configVars, locks, now, callerVars,
                   admissionVars, calls>>

RecordError(token_id) ==
    /\ error_count[token_id] < MaxErrorCount
    /\ error_count' = DbIncrementErrorCount(token_id)
    /\ IF DbHasStats(token_id) /\ ShouldBan(error_count'[token_id], error_ban_threshold)
         THEN is_active' = DbUpdateTokenStatus(token_id, FALSE)
         ELSE UNCHANGED is_active
    /\ errors_since_reset' = Counted(token_id, errors_since_reset[token_id] + 1)
    /\ last' = Op("record_error", token_id, FALSE, NoToken)
    /\ UNCHANGED <<tokens, image_count, video_count, cooled_until,
                   configVars, locks, now, callerVars,
                   admissionVars, calls>>

RecordSuccess_NoReset(token_id) ==
    /\ errors_since_reset' = Counted(token_id, 0)
    /\ last' = Op("record_success", token_id, FALSE, NoToken)
    /\ UNCHANGED <<tokens, is_active, error_count, image_count, video_count,
                   cooled_until, configVars, locks, now, callerVars,
                   admissionVars, calls>>

RecordSuccess(token_id) ==
    /\ error_count' = DbResetErrorCount(token_id)
    /\ errors_since_reset' = Counted(token_id, 0)
    /\ last' = Op("record_success", token_id, FALSE, NoToken)
    /\ UNCHANGED <<tokens, is_active, image_count, video_count, cooled_until,
                   configVars, locks, now, callerVars,
                   admissionVars, calls>>

CheckAndApplyCooldown_AnyUsage(token_id) ==
    /\ IF /\ DbHasStats(token_id)
          /\ video_count[token_id] + image_count[token_id] >= video_cooldown_threshold
         THEN cooled_until' = DbUpdateTokenCooldown(token_id, now + CooldownHours)
         ELSE UNCHANGED cooled_until
    /\ last' = Op("check_and_apply_cooldown", token_id, FALSE, NoToken)
    /\ UNCHANGED <<tokens, is_active, error_count, image_count, video_count,
                   configVars, locks, now, callerVars,
                   admissionVars, calls, errors_since_reset>>

CheckAndApplyCooldown(token_id) ==
    /\ IF DbHasStats(token_id) /\ video_count[token_id] >= video_cooldown_threshold
         THEN cooled_until' = DbUpdateTokenCooldown(token_id, now + CooldownHours)
         ELSE UNCHANGED cooled_until
    /\ last' = Op("check_and_apply_cooldown", token_id, FALSE, NoToken)
    /\ UNCHANGED <<tokens, is_active, error_count, image_count, video_count,
                   configVars, locks, now, callerVars,
                   admissionVars, calls, errors_since_reset>>

\* ----------------------------------------------------------- LoadBalancer
RandomChoice_First(candidates) ==
    IF candidates = {} THEN {Raised}
    ELSE {CHOOSE t \in candidates : \A u \in candidates : t <= u}

\* random.choice: any member; IndexError on an empty list.
RandomChoice(candidates) == IF candidates = {} THEN {Raised} ELSE candidates

AvailableTokens_NoFilter(active_tokens) == active_tokens

AvailableTokens_AnyRecord(active_tokens) == {t \in active_tokens : locks[t] = NoLock}

\* The loop that keeps the tokens not locked for image generation.
AvailableTokens(active_tokens) == {t \in active_tokens : ~LockIsLocked(t)}

SelectResults_FilterAlways(for_image_generation) ==
    LET active_tokens == GetActiveTokens
        available_tokens == AvailableTokens(active_tokens)
    IN  IF available_tokens = {} THEN {NoToken} ELSE RandomChoice(available_tokens)

\* The values select_token(for_image_generation) can return in this state.
SelectResults(for_image_generation) ==
    LET active_tokens == GetActiveTokens
    IN  IF active_tokens = {} THEN {NoToken}
        ELSE IF for_image_generation
               THEN LET available_tokens == AvailableTokens(active_tokens)
                    IN  IF available_tokens = {} THEN {NoToken}
                        ELSE RandomChoice(available_tokens)
               ELSE RandomChoice(active_tokens)

SelectToken_Locking(c, for_image_generation) ==
    /\ c \in Callers => obtained[c] = NoToken
    /\ \E token \in SelectResults(for_image_generation) :
         /\ last' = Op("select_token", NoToken, for_image_generation, token)
         /\ obtained' = IF c \in Callers /\ for_image_generation /\ token # Raised
                          THEN [obtained EXCEPT ![c] = token]
                          ELSE obtained
         /\ locks' = IF for_image_generation /\ token \in TokenIds
                       THEN LockAcquire(token) ELSE locks
    /\ UNCHANGED <<poolVars, configVars, now, acquired,
                   admissionVars, calls, errors_since_reset>>

\* select_token, called by caller c.  An image request of a caller in Callers
\* keeps the credential it was given until the request is over; a video
\* request holds nothing, and the Observer's requests are not followed further.
SelectToken(c, for_image_generation) ==
    /\ c \in Callers => obtained[c] = NoToken
    /\ \E token \in SelectResults(for_image_generation) :
         /\ last' = Op("select_token", NoToken, for_image_generation, token)
         /\ obtained' = IF c \in Callers /\ for_image_generation /\ token # Raised
                          THEN [obtained EXCEPT ![c] = token]
                          ELSE obtained
    /\ UNCHANGED <<poolVars, configVars, locks, now, acquired,
                   admissionVars, calls, errors_since_reset>>

\* ------------------------------------------------------------ the callers
\* An image request: select_token, then acquire_lock on the credential it was
\* given, then release_lock when the request is over.
AcquireLock(c) ==
    /\ obtained[c] # NoToken
    /\ ~acquired[c]
    /\ locks' = LockAcquire(obtained[c])
    /\ IF LockIsLocked(obtained[c])
         THEN /\ obtained' = [obtained EXCEPT ![c] = NoToken]
              /\ UNCHANGED acquired
         ELSE /\ acquired' = [acquired EXCEPT ![c] = TRUE]
              /\ UNCHANGED obtained
    /\ last' = Op("acquire_lock", obtained[c], ~LockIsLocked(obtained[c]), NoToken)
    /\ UNCHANGED <<poolVars, configVars, now,
                   admissionVars, calls, errors_since_reset>>

ReleaseLock(c) ==
    /\ acquired[c]
    /\ locks' = LockRelease(obtained[c])
    /\ obtained' = [obtained EXCEPT ![c] = NoToken]
    /\ acquired' = [acquired EXCEPT ![c] = FALSE]
    /\ last' = Op("release_lock", obtained[c], FALSE, NoToken)
    /\ UNCHANGED <<poolVars, configVars, now,
                   admissionVars, calls, errors_since_reset>>

\* ------------------------------------------------------ clock and config
Tick ==
    /\ now + TickHours <= MaxTime
    /\ now' = now + TickHours
    /\ last' = Op("tick", NoToken, FALSE, NoToken)
    /\ UNCHANGED <<poolVars, configVars, locks, callerVars,
                   admissionVars, calls, errors_since_reset>>

\* The administrator changes a threshold of the stored configuration.
SetErrorBanThreshold(n) ==
    /\ n # error_ban_threshold
    /\ error_ban_threshold' = n
    /\ last' = Op("set_error_ban_threshold", NoToken, FALSE, n)
    /\ UNCHANGED <<poolVars, video_cooldown_threshold, locks, now, callerVars,
                   admissionVars, calls, errors_since_reset>>

SetVideoCooldownThreshold(n) ==
    /\ n # video_cooldown_threshold
    /\ video_cooldown_threshold' = n
    /\ last' = Op("set_video_cooldown_threshold", NoToken, FALSE, n)
    /\ UNCHANGED <<poolVars, error_ban_threshold, locks, now, callerVars,
                   admissionVars, calls, errors_since_reset>>

\* ------------------------------------------------ TokenManager, admission
\* add_token, update_token and delete_token.  last also records the remark and
\* the enrichment calls that failed during the call.
AdmissionOp(name, value, flag, res, remark_given, failed) ==
    [op |-> name, tok |-> value, flag |-> flag, res |-> res,
     remark |-> remark_given, failed |-> failed]

\* decode_jwt returns the claims of every token but NotJwt, for which it
\* raises ValueError.
Decodable(value) == value # NotJwt

\* db.get_token_by_value: the rows that hold the secret.
DbGetTokenByValue(value) == {t \in tokens : token_value[t] = value}

\* db.add_token gives the new row the smallest id that is free.
DbNewId == CHOOSE id \in TokenIds \ tokens : \A u \in TokenIds \ tokens : id <= u

\* The except clauses around get_user_info, get_subscription_info and
\* get_sora2_invite_code swallow the exception: no failure rejects the token.
EnrichmentRejects_UserInfo(failed) == "user" \in failed

EnrichmentRejects(failed) == FALSE

\* "if existing_token: if not update_if_exists: raise ValueError".
RaisesConflict_Never(existing, update_if_exists) == FALSE

RaisesConflict(existing, update_if_exists) == existing # {} /\ ~update_if_exists

\* A call that raises leaves the store as it is.
AdmissionRaises(value, remark_given, update_if_exists, failed, error) ==
    /\ last' = AdmissionOp("add_token", value, update_if_exists, error,
                           remark_given, failed)
    /\ UNCHANGED <<poolVars, admissionVars>>

\* update_existing_token: decode_jwt raises before anything is written;
\* db.update_token writes the arguments that are not None, and the e-mail and
\* the Sora2 fields are not among its arguments.
UpdateExistingToken(token_id, value, remark_given, failed) ==
    IF ~Decodable(value)
      THEN UNCHANGED <<poolVars, admissionVars>>
      ELSE /\ failed \subseteq {"user", "plan"}
           /\ token_value' = DbSet(token_value, token_id, value)
           /\ remark' = IF remark_given = NoRemark THEN remark
                        ELSE DbSet(remark, token_id, remark_given)
           /\ metadata' = DbSet(metadata, token_id,
                                metadata[token_id] \cup ({"plan"} \ failed))
           /\ UNCHANGED poolVars

\* failed is the set of enrichment calls that raise during this call; a call
\* that raises before it reaches them has none.
AddToken(value, remark_given, update_if_exists, failed) ==
    /\ LET existing == DbGetTokenByValue(value)
       IN  IF existing # {}
             THEN IF RaisesConflict(existing, update_if_exists)
                    THEN /\ failed = {}
                         /\ AdmissionRaises(value, remark_given, update_if_exists,
                                            {}, Conflict)
                    ELSE \E token_id \in existing :
                            /\ ~Decodable(value) => failed = {}
                            /\ UpdateExistingToken(token_id, value, remark_given, failed)
                            /\ last' = AdmissionOp("add_token", value, update_if_exists,
                                                   IF Decodable(value) THEN token_id
                                                   ELSE InvalidJwt,
                                                   remark_given, failed)
             ELSE IF ~Decodable(value)
                    THEN /\ failed = {}
                         /\ AdmissionRaises(value, remark_given, update_if_exists,
                                            {}, InvalidJwt)
                    ELSE IF EnrichmentRejects(failed)
                           THEN AdmissionRaises(value, remark_given,
                                                update_if_exists, failed, Raised)
                           ELSE /\ tokens # TokenIds
                                /\ tokens' = tokens \cup {DbNewId}
                                /\ is_active' = [is_active EXCEPT ![DbNewId] = TRUE]
                                /\ error_count' = [error_count EXCEPT ![DbNewId] = 0]
                                /\ image_count' = [image_count EXCEPT ![DbNewId] = 0]
                                /\ video_count' = [video_count EXCEPT ![DbNewId] = 0]
                                /\ cooled_until' = [cooled_until EXCEPT ![DbNewId] = NoTime]
                                /\ token_value' = [token_value EXCEPT ![DbNewId] = value]
                                /\ remark' = [remark EXCEPT ![DbNewId] = remark_given]
                                /\ metadata' = [metadata EXCEPT ![DbNewId] = Fields \ failed]
                                /\ last' = AdmissionOp("add_token", value,
                                                       update_if_exists, DbNewId,
                                                       remark_given, failed)
    /\ UNCHANGED <<configVars, locks, now, callerVars, calls, errors_since_reset>>

\* update_token with a new access token only; a token decode_jwt rejects is
\* stored all the same.  The store keeps the secrets of its rows distinct.
UpdateToken(token_id, value) ==
    /\ \A t \in tokens \ {token_id} : token_value[t] # value
    /\ token_value' = DbSet(token_value, token_id, value)
    /\ last' = Op("update_token", token_id, FALSE, NoToken)
    /\ UNCHANGED <<poolVars, remark, metadata, configVars, locks, now,
                   callerVars, calls, errors_since_reset>>

\* db.delete_token removes the row of the id, if there is one.
DeleteToken(token_id) ==
    /\ tokens' = tokens \ {token_id}
    /\ is_active' = [is_active EXCEPT ![token_id] = FALSE]
    /\ error_count' = [error_count EXCEPT ![token_id] = 0]
    /\ image_count' = [image_count EXCEPT ![token_id] = 0]
    /\ video_count' = [video_count EXCEPT ![token_id] = 0]
    /\ cooled_until' = [cooled_until EXCEPT ![token_id] = NoTime]
    /\ token_value' = [token_value EXCEPT ![token_id] = NoValue]
    /\ remark' = [remark EXCEPT ![token_id] = NoRemark]
    /\ metadata' = [metadata EXCEPT ![token_id] = {}]
    /\ errors_since_reset' = [errors_since_reset EXCEPT ![token_id] = 0]
    /\ last' = Op("delete_token", token_id, FALSE, NoToken)
    /\ UNCHANGED <<configVars, locks, now, callerVars, calls>>

\* ----------------------------- TokenManager, store call by store call
\* Every await of a Database method is a point where the event loop may run
\* another coroutine: self._lock is created in __init__ and acquired nowhere.
\* calls[p].pc names the call coroutine p issues next; "returned" and "raised"
\* are the two ways its handler ends.  The history errors_since_reset is kept
\* by the one-action handlers only, whose calls come in a definite order.
stepVars == <<tokens, cooled_until, configVars, locks, now, callerVars,
              admissionVars, errors_since_reset, last>>

At(p, op, pc) == calls[p].op = op /\ calls[p].pc = pc

Goto(p, pc) == [calls EXCEPT ![p].pc = pc]

\* The first store call of each handler.
FirstCall(op) ==
    CASE op = "record_error" -> "increment_error_count"
      [] op = "record_success" -> "reset_error_count"
      [] op = "enable_token" -> "update_token_status"
      [] op = "disable_token" -> "update_token_status"
      [] op = "record_usage" -> "update_token_usage"
      [] op = "test_token" -> "get_token"

HealthOps == {"record_error", "record_success", "enable_token"}
StepOps == HealthOps \cup {"disable_token", "record_usage", "test_token"}

\* Coroutine p is handed a call; flag is is_video of record_usage.
Begin(p, op, token_id, flag) ==
    /\ calls[p].pc = "idle"
    /\ flag => op = "record_usage"
    /\ calls' = [calls EXCEPT ![p] = [Idle EXCEPT !.op = op, !.tok = token_id,
                                                  !.flag = flag,
                                                  !.pc = FirstCall(op)]]
    /\ UNCHANGED <<stepVars, is_active, error_count, image_count, video_count>>

RecordError_IncrementErrorCount(p) ==
    /\ At(p, "record_error", "increment_error_count")
    /\ error_count[calls[p].tok] < MaxErrorCount
    /\ error_count' = DbIncrementErrorCount(calls[p].tok)
    /\ calls' = Goto(p, "get_token_stats")
    /\ UNCHANGED <<stepVars, is_active, image_count, video_count>>

RecordError_GetTokenStats(p) ==
    /\ At(p, "record_error", "get_token_stats")
    /\ calls' = [calls EXCEPT ![p].pc = "get_admin_config",
                              ![p].stats = IF DbHasStats(calls[p].tok)
                                             THEN error_count[calls[p].tok]
                                             ELSE NoStats]
    /\ UNCHANGED <<stepVars, is_active, error_count, image_count, video_count>>

RecordError_GetAdminConfig(p) ==
    /\ At(p, "record_error", "get_admin_config")
    /\ calls' = [calls EXCEPT
                   ![p].threshold = error_ban_threshold,
                   ![p].pc = IF /\ calls[p].stats # NoStats
                                /\ ShouldBan(calls[p].stats, error_ban_threshold)
                               THEN "update_token_status" ELSE "returned"]
    /\ UNCHANGED <<stepVars, is_active, error_count, image_count, video_count>>

RecordError_UpdateTokenStatus(p) ==
    /\ At(p, "record_error", "update_token_status")
    /\ is_active' = DbUpdateTokenStatus(calls[p].tok, FALSE)
    /\ calls' = Goto(p, "returned")
    /\ UNCHANGED <<stepVars, error_count, image_count, video_count>>

RecordSuccess_ResetErrorCount(p) ==
    /\ At(p, "record_success", "reset_error_count")
    /\ error_count' = DbResetErrorCount(calls[p].tok)
    /\ calls' = Goto(p, "returned")
    /\ UNCHANGED <<stepVars, is_active, image_count, video_count>>

EnableToken_UpdateTokenStatus(p) ==
    /\ At(p, "enable_token", "update_token_status")
    /\ is_active' = DbUpdateTokenStatus(calls[p].tok, TRUE)
    /\ calls' = Goto(p, "reset_error_count")
    /\ UNCHANGED <<stepVars, error_count, image_count, video_count>>

EnableToken_ResetErrorCount(p) ==
    /\ At(p, "enable_token", "reset_error_count")
    /\ error_count' = DbResetErrorCount(calls[p].tok)
    /\ calls' = Goto(p, "returned")
    /\ UNCHANGED <<stepVars, is_active, image_count, video_count>>

DisableToken_UpdateTokenStatus(p) ==
    /\ At(p, "disable_token", "update_token_status")
    /\ is_active' = DbUpdateTokenStatus(calls[p].tok, FALSE)
    /\ calls' = Goto(p, "returned")
    /\ UNCHANGED <<stepVars, error_count, image_count, video_count>>

\* db.update_token_usage stamps the time of use, which the model does not keep.
RecordUsage_UpdateTokenUsage(p) ==
    /\ At(p, "record_usage", "update_token_usage")
    /\ calls' = Goto(p, IF calls[p].flag THEN "increment_video_count"
                                         ELSE "increment_image_count")
    /\ UNCHANGED <<stepVars, is_active, error_count, image_count, video_count>>

RecordUsage_IncrementCount(p) ==
    /\ calls[p].op = "record_usage"
    /\ \/ /\ calls[p].pc = "increment_video_count"
          /\ video_count[calls[p].tok] < MaxVideoCount
          /\ video_count' = DbIncrementVideoCount(calls[p].tok)
          /\ UNCHANGED image_count
       \/ /\ calls[p].pc = "increment_image_count"
          /\ image_count[calls[p].tok] < MaxImageCount
          /\ image_count' = DbIncrementImageCount(calls[p].tok)
          /\ UNCHANGED video_count
    /\ calls' = Goto(p, "returned")
    /\ UNCHANGED <<stepVars, is_active, error_count>>

\* test_token: a missing row is answered with valid False.
TestToken_GetToken(p) ==
    /\ At(p, "test_token", "get_token")
    /\ calls' = Goto(p, IF calls[p].tok \in tokens THEN "sora_api" ELSE "returned")
    /\ UNCHANGED <<stepVars, is_active, error_count, image_count, video_count>>

\* get_user_info and get_sora2_invite_code inside the try block: an exception
\* of the API is answered with valid False.
TestToken_SoraApi(p, ok) ==
    /\ At(p, "test_token", "sora_api")
    /\ calls' = Goto(p, IF ok THEN "update_token_sora2" ELSE "returned")
    /\ UNCHANGED <<stepVars, is_active, error_count, image_count, video_count>>

\* The Sora2 columns are not kept; the call is answered with valid True.
TestToken_UpdateTokenSora2(p) ==
    /\ At(p, "test_token", "update_token_sora2")
    /\ calls' = [calls EXCEPT ![p].pc = "returned", ![p].valid = TRUE]
    /\ UNCHANGED <<stepVars, is_active, error_count, image_count, video_count>>

\* The store calls, as opposed to the calls of the Sora API.
StoreCalls == {"increment_error_count", "get_token_stats", "get_admin_config",
               "update_token_status", "reset_error_count", "update_token_usage",
               "increment_video_count", "increment_image_count", "get_token",
               "update_token_sora2"}

\* The pending store call of coroutine p raises.  No handler catches the
\* exception, except the try block of test_token, whose "except Exception"
\* answers valid False.
StoreFails(p) ==
    /\ calls[p].pc \in StoreCalls
    /\ calls' = [calls EXCEPT
                   ![p].failed = TRUE,
                   ![p].pc = IF At(p, "test_token", "update_token_sora2")
                               THEN "returned" ELSE "raised"]
    /\ UNCHANGED <<stepVars, is_active, error_count, image_count, video_count>>

\* The caller of coroutine p has received the result or the exception; the
\* coroutine is free for another call.
Finish(p) ==
    /\ calls[p].pc \in {"returned", "raised"}
    /\ calls' = [calls EXCEPT ![p] = Idle]
    /\ UNCHANGED <<stepVars, is_active, error_count, image_count, video_count>>

\* ------------------------------------------------------- specifications
NoRows(value) == [t \in TokenIds |-> value]

\* The rows hold distinct decodable secrets, no remark and default metadata;
\* no coroutine is running; no record_error call has been made.
InitRest ==
    /\ token_value = [t \in TokenIds |-> IF t \in tokens THEN t ELSE NoValue]
    /\ remark = NoRows(NoRemark)
    /\ metadata = NoRows({})
    /\ calls = [p \in Procs |-> Idle]
    /\ errors_since_reset = NoRows(0)

\* A pool of two credentials right after they were added: Active, no errors,
\* no usage, no cooldown, no lock.
Init ==
    /\ tokens = {1, 2}
    /\ is_active = [t \in TokenIds |-> t \in tokens]
    /\ error_count = NoRows(0)
    /\ image_count = NoRows(0)
    /\ video_count = NoRows(0)
    /\ cooled_until = NoRows(NoTime)
    /\ error_ban_threshold = MaxThreshold
    /\ video_cooldown_threshold = MaxThreshold
    /\ locks = NoRows(NoLock)
    /\ now = 0
    /\ obtained = [c \in Callers |-> NoToken]
    /\ acquired = [c \in Callers |-> FALSE]
    /\ InitRest
    /\ last = Op("init", NoToken, FALSE, NoToken)

\* Error accounting and manual status changes.  The pool starts at time 0 with
\* any of its credentials already cooled down by check_and_apply_cooldown or
\* locked by an image request.
InitHealth ==
    /\ tokens = {1, 2}
    /\ is_active = [t \in TokenIds |-> t \in tokens]
    /\ error_count = NoRows(0)
    /\ image_count = NoRows(0)
    /\ error_ban_threshold = MaxThreshold
    /\ video_cooldown_threshold = 1
    /\ now = 0
    /\ \E cooled \in SUBSET tokens :
         /\ video_count = [t \in TokenIds |-> IF t \in cooled THEN 1 ELSE 0]
         /\ cooled_until = [t \in TokenIds |->
                               IF t \in cooled THEN CooldownHours ELSE NoTime]
    /\ \E locked \in SUBSET tokens :
         locks = [t \in TokenIds |-> IF t \in locked THEN 0 ELSE NoLock]
    /\ obtained = [c \in Callers |-> NoToken]
    /\ acquired = [c \in Callers |-> FALSE]
    /\ InitRest
    /\ last = Op("init", NoToken, FALSE, NoToken)

NextHealth ==
    \/ \E t \in TokenIds : RecordError(t)
    \/ \E t \in TokenIds : RecordSuccess(t)
    \/ \E t \in TokenIds : EnableToken(t)
    \/ \E t \in TokenIds : DisableToken(t)
    \/ \E t \in TokenIds, b \in BOOLEAN : UpdateTokenStatus(t, b)
    \/ \E n \in 1..MaxThreshold : SetErrorBanThreshold(n)
    \/ \E img \in BOOLEAN : SelectToken(Observer, img)

SpecHealth == InitHealth /\ [][NextHealth]_vars

\* Usage accounting, cooldown, manual status changes and the clock.
NextCooldown ==
    \/ \E t \in tokens, v \in BOOLEAN : RecordUsage(t, v)
    \/ \E t \in tokens : CheckAndApplyCooldown(t)
    \/ \E t \in tokens : EnableToken(t)
    \/ \E t \in tokens : DisableToken(t)
    \/ \E n \in 1..MaxThreshold : SetVideoCooldownThreshold(n)
    \/ \E img \in BOOLEAN : SelectToken(Observer, img)
    \/ Tick

SpecCooldown == Init /\ [][NextCooldown]_vars

\* Image requests, the lock and the clock.  The second credential of the pool
\* is Active or Disabled.
InitLock ==
    /\ tokens = {1, 2}
    /\ \E b \in BOOLEAN : is_active = [t \in TokenIds |-> t = 1 \/ (t = 2 /\ b)]
    /\ error_count = NoRows(0)
    /\ image_count = NoRows(0)
    /\ video_count = NoRows(0)
    /\ cooled_until = NoRows(NoTime)
    /\ error_ban_threshold = MaxThreshold
    /\ video_cooldown_threshold = MaxThreshold
    /\ locks = NoRows(NoLock)
    /\ now = 0
    /\ obtained = [c \in Callers |-> NoToken]
    /\ acquired = [c \in Callers |-> FALSE]
    /\ InitRest
    /\ last = Op("init", NoToken, FALSE, NoToken)

NextLock ==
    \/ \E c \in Callers \cup {Observer}, img \in BOOLEAN : SelectToken(c, img)
    \/ \E c \in Callers : AcquireLock(c)
    \/ \E c \in Callers : ReleaseLock(c)
    \/ Tick

SpecLock == InitLock /\ [][NextLock]_vars

\* select_token over every pool of three credentials: each is Active or
\* Disabled, cooled down at time 0 or not, locked at time 0 or not.
InitSelect ==
    /\ tokens = TokenIds
    /\ is_active \in [TokenIds -> BOOLEAN]
    /\ error_count = NoRows(0)
    /\ image_count = NoRows(0)
    /\ video_cooldown_threshold = 1
    /\ error_ban_threshold = MaxThreshold
    /\ now = 0
    /\ \E cooled \in SUBSET tokens :
         /\ video_count = [t \in TokenIds |-> IF t \in cooled THEN 1 ELSE 0]
         /\ cooled_until = [t \in TokenIds |->
                               IF t \in cooled THEN CooldownHours ELSE NoTime]
    /\ \E locked \in SUBSET tokens :
         locks = [t \in TokenIds |-> IF t \in locked THEN 0 ELSE NoLock]
    /\ obtained = [c \in Callers |-> NoToken]
    /\ acquired = [c \in Callers |-> FALSE]
    /\ InitRest
    /\ last = Op("init", NoToken, FALSE, NoToken)

NextSelect ==
    \/ \E img \in BOOLEAN : SelectToken(Observer, img)
    \/ Tick

SpecSelect == InitSelect /\ [][NextSelect]_vars

\* Three coroutines, each handed at most one of record_error, record_success
\* and enable_token, run their store calls in any interleaving.
NextConcurrent ==
    \/ \E p \in Procs, op \in HealthOps, t \in tokens : Begin(p, op, t, FALSE)
    \/ \E p \in Procs : RecordError_IncrementErrorCount(p)
    \/ \E p \in Procs : RecordError_GetTokenStats(p)
    \/ \E p \in Procs : RecordError_GetAdminConfig(p)
    \/ \E p \in Procs : RecordError_UpdateTokenStatus(p)
    \/ \E p \in Procs : RecordSuccess_ResetErrorCount(p)
    \/ \E p \in Procs : EnableToken_UpdateTokenStatus(p)
    \/ \E p \in Procs : EnableToken_ResetErrorCount(p)

SpecConcurrent == Init /\ [][NextConcurrent]_vars

\* One coroutine serves one call after another; any store call may raise.
Worker == CHOOSE p \in Procs : TRUE

NextStoreFailure ==
    \/ \E op \in StepOps, t \in TokenIds, flag \in BOOLEAN : Begin(Worker, op, t, flag)
    \/ RecordError_IncrementErrorCount(Worker)
    \/ RecordError_GetTokenStats(Worker)
    \/ RecordError_GetAdminConfig(Worker)
    \/ RecordError_UpdateTokenStatus(Worker)
    \/ RecordSuccess_ResetErrorCount(Worker)
    \/ EnableToken_UpdateTokenStatus(Worker)
    \/ EnableToken_ResetErrorCount(Worker)
    \/ DisableToken_UpdateTokenStatus(Worker)
    \/ RecordUsage_UpdateTokenUsage(Worker)
    \/ RecordUsage_IncrementCount(Worker)
    \/ TestToken_GetToken(Worker)
    \/ \E ok \in BOOLEAN : TestToken_SoraApi(Worker, ok)
    \/ TestToken_UpdateTokenSora2(Worker)
    \/ StoreFails(Worker)
    \/ Finish(Worker)

SpecStoreFailure == Init /\ [][NextStoreFailure]_vars

\* Admission while the Sora API answers every enrichment call: an
\* administrator adds credentials to a pool of two and replaces access tokens.
NextAdmission ==
    \/ \E value \in Secrets \cup {NotJwt}, r \in Remarks, u \in BOOLEAN :
          AddToken(value, r, u, {})
    \/ \E t \in TokenIds, value \in Secrets \cup {NotJwt} : UpdateToken(t, value)

SpecAdmission == Init /\ [][NextAdmission]_vars

\* Admission while any of the enrichment calls may fail: credentials are added
\* without a remark, and deleted.
NextEnrichment ==
    \/ \E value \in Secrets \cup {NotJwt}, u \in BOOLEAN, failed \in SUBSET Fields :
          AddToken(value, NoRemark, u, failed)
    \/ \E t \in TokenIds : DeleteToken(t)

SpecEnrichment == Init /\ [][NextEnrichment]_vars

\* Every handler in any order, on the pool of Init.
Next ==
    \/ \E t \in TokenIds : RecordError(t)
    \/ \E t \in TokenIds : RecordSuccess(t)
    \/ \E t \in TokenIds : EnableToken(t)
    \/ \E t \in TokenIds : DisableToken(t)
    \/ \E t \in TokenIds, b \in BOOLEAN : UpdateTokenStatus(t, b)
    \/ \E t \in TokenIds, v \in BOOLEAN : RecordUsage(t, v)
    \/ \E t \in TokenIds : CheckAndApplyCooldown(t)
    \/ \E n \in 1..MaxThreshold : SetErrorBanThreshold(n)
    \/ \E n \in 1..MaxThreshold : SetVideoCooldownThreshold(n)
    \/ \E c \in Callers \cup {Observer}, img \in BOOLEAN : SelectToken(c, img)
    \/ \E c \in Callers : AcquireLock(c)
    \/ \E c \in Callers : ReleaseLock(c)
    \/ Tick
    \/ NextAdmission
    \/ NextEnrichment
    \/ NextConcurrent
    \/ NextStoreFailure

Spec == Init /\ [][Next]_vars

\* ----------------------------------------------------------------- claims
\* The credentials eligible for a request class: Active, not cooling and, for
\* the image class, not locked.
Eligible(for_image_generation) ==
    {t \in tokens : /\ is_active[t]
                    /\ ~Cooling(t)
                    /\ for_image_generation => ~LockIsLocked(t)}

Selected == last.op = "select_token" /\ last.res \in TokenIds

\* A record_error call that leaves error_count at or above the threshold leaves
\* the credential Disabled.
BanDisables ==
    (last.op = "record_error" /\ last.tok \in tokens
        /\ error_count[last.tok] >= error_ban_threshold)
    => ~is_active[last.tok]

\* select_token returns no Disabled credential, for either request class.
SelectSkipsDisabled == Selected => is_active[last.res]

\* A Disabled credential (one whose error_count is at or above the threshold,
\* when banned_only) becomes Active only by one of the operations ops, applied
\* to it.
ReactivatedOnlyBy(ops, banned_only) ==
    \A t \in tokens :
        (/\ ~is_active[t]
         /\ banned_only => error_count[t] >= error_ban_threshold
         /\ is_active'[t])
        => (last'.op \in ops /\ last'.tok = t)

C2_Exclusive ==
    Cardinality({t \in tokens : is_active[t]}) = 1
    => \A c1, c2 \in Callers :
          (c1 # c2 /\ obtained[c1] # NoToken) => obtained[c1] # obtained[c2]

\* C3: select_token(for_image_generation=True) returns only a credential that
\* is Active and not locked for the image class.
C3_ImageSelection ==
    (Selected /\ last.flag) => (is_active[last.res] /\ ~LockIsLocked(last.res))

\* The pool {1: active/unlocked, 2: active/locked, 3: disabled} yields 1.
C3_Witness ==
    /\ Selected /\ last.flag /\ last.res = 1
    /\ is_active[2] /\ ~Cooling(2) /\ LockIsLocked(2)
    /\ ~is_active[3]

\* C4: the image lock plays no part in a video selection: the call returns an
\* Active credential, and every Active credential that is not cooling down,
\* locked or not, is a possible result.
C4_VideoSelection ==
    /\ (Selected /\ ~last.flag) => is_active[last.res]
    /\ \A t \in tokens : (is_active[t] /\ ~Cooling(t)) => t \in SelectResults(FALSE)

\* A video selection returns a credential that is locked for the image class.
C4_Witness == Selected /\ ~last.flag /\ LockIsLocked(last.res)

\* C5: enable_token leaves the credential Active with error_count 0, and the
\* next select_token can return it unless it is cooling down or, for an image
\* request, locked.
C5_EnableToken ==
    (last.op = "enable_token" /\ last.tok \in tokens)
    => /\ is_active[last.tok]
       /\ error_count[last.tok] = 0
       /\ ~Cooling(last.tok) => last.tok \in SelectResults(FALSE)
       /\ (~Cooling(last.tok) /\ ~LockIsLocked(last.tok))
             => last.tok \in SelectResults(TRUE)

\* enable_token has run on a credential that is neither cooling nor locked.
C5_Witness ==
    /\ last.op = "enable_token" /\ last.tok \in tokens
    /\ ~Cooling(last.tok) /\ ~LockIsLocked(last.tok)
    /\ last.tok \in SelectResults(TRUE)

\* C6: whenever a credential goes from Disabled to Active, its error_count is 0
\* right after the step.
C6_ActivationResets ==
    [][\A t \in tokens : (~is_active[t] /\ is_active'[t]) => error_count'[t] = 0]_vars

\* C7: a record_usage(id, video) call that leaves video_count at or above the
\* threshold has set cooled_until to now + 12 hours and left the status Active.
C7_UsageStartsCooldown ==
    (last.op = "record_usage" /\ last.flag /\ last.tok \in tokens
        /\ video_count[last.tok] >= video_cooldown_threshold)
    => (cooled_until[last.tok] = now + CooldownHours /\ is_active[last.tok])

C9_LockExpires ==
    \A t \in tokens :
        (locks[t] # NoLock /\ now > locks[t] + LockTimeout)
        => /\ ~LockIsLocked(t)
           /\ (is_active[t] /\ ~Cooling(t)) => t \in SelectResults(TRUE)

\* An image selection returns a credential whose lock was never released.
C9_Witness ==
    /\ Selected /\ last.flag
    /\ locks[last.res] # NoLock /\ now > locks[last.res] + LockTimeout

FreshRow == [active |-> TRUE, count |-> 0]

\* The effect of one whole call on the status and error count of its row.
Serially(op, row) ==
    CASE op = "record_error" ->
           [active |-> IF ShouldBan(row.count + 1, error_ban_threshold)
                         THEN FALSE ELSE row.active,
            count |-> row.count + 1]
      [] op = "record_success" -> [row EXCEPT !.count = 0]
      [] op = "enable_token" -> [active |-> TRUE, count |-> 0]

\* Every row the calls of the coroutines ps can leave behind when they run one
\* at a time, in any order.
RECURSIVE SerialResults(_, _)
SerialResults(ps, row) ==
    IF ps = {} THEN {row}
    ELSE UNION {SerialResults(ps \ {p}, Serially(calls[p].op, row)) : p \in ps}

Quiescent == \A p \in Procs : calls[p].pc \in {"idle", "returned"}

CallsOn(t) == {p \in Procs : calls[p].pc = "returned" /\ calls[p].tok = t}

\* C11: when concurrent record_error, record_success and enable_token calls
\* have all returned, the status and error_count of every credential are what
\* some one-at-a-time order of the same calls produces.
C11_Serializable ==
    Quiescent =>
        \A t \in tokens :
            [active |-> is_active[t], count |-> error_count[t]]
                \in SerialResults(CallsOn(t), FreshRow)

\* C12: right after record_success the error_count of the credential is 0, and
\* a record_error call takes a credential from Active to Disabled only when
\* the record_error calls made on it since its last record_success or
\* enable_token number at least error_ban_threshold.
C12_BanCountsConsecutive ==
    /\ [](last.op = "record_success" /\ last.tok \in tokens
            => error_count[last.tok] = 0)
    /\ [][\A t \in tokens :
             (/\ last'.op = "record_error"
              /\ last'.tok = t
              /\ is_active[t]
              /\ ~is_active'[t])
             => errors_since_reset'[t] >= error_ban_threshold]_vars

C12_Witness ==
    /\ last.op = "record_error"
    /\ last.tok \in tokens
    /\ ~is_active[last.tok]
    /\ errors_since_reset[last.tok] = error_ban_threshold
    /\ error_ban_threshold = MaxThreshold

\* C13: a record_error call leaves its credential Disabled exactly when the
\* error_count it has just incremented is at least the error_ban_threshold the
\* store holds during that call, whatever the threshold was before; otherwise
\* the status is the one the credential had.
C13_ThresholdAtCallTime ==
    [][\A t \in tokens :
          (last'.op = "record_error" /\ last'.tok = t)
          => /\ error_count'[t] = error_count[t] + 1
             /\ is_active'[t] =
                   IF error_count'[t] >= error_ban_threshold' THEN FALSE
                   ELSE is_active[t]]_vars

C13_Witness ==
    /\ last.op = "record_error"
    /\ last.tok \in tokens
    /\ error_ban_threshold < MaxThreshold
    /\ error_count[last.tok] = error_ban_threshold
    /\ ~is_active[last.tok]

HandlersNamingAnId ==
    {"record_error", "record_success", "record_usage", "enable_token", "disable_token"}

\* C15: a record_error, record_success, record_usage, enable_token or
\* disable_token call that names an id without a row reports NotFound.
C15_AbsentIdReported ==
    (last.op \in HandlersNamingAnId /\ last.tok \notin tokens)
    => last.res = NotFound

\* C17: a record_error call whose incremented error_count reaches the
\* threshold returns None like any other, and the credential is Disabled in
\* the state the caller reads next.
C17_BanReturnsNormally ==
    (/\ last.op = "record_error"
     /\ last.tok \in tokens
     /\ ShouldBan(error_count[last.tok], error_ban_threshold))
    => (last.res = NoToken /\ ~is_active[last.tok])

C17_Witness ==
    /\ last.op = "record_error"
    /\ last.res = NoToken
    /\ last.tok \in tokens
    /\ ~is_active[last.tok]
    /\ error_count[last.tok] = MaxThreshold
    /\ error_ban_threshold = MaxThreshold
    /\ \E t \in tokens : is_active[t]

\* C18: while a credential is cooling, no step changes its cooled_until.
C18_CooldownFrozen ==
    [][\A t \in tokens : Cooling(t) => cooled_until'[t] = cooled_until[t]]_vars

\* C19: recording image usage never changes cooled_until, and neither does a
\* cooldown check on a credential whose video_count is below the threshold,
\* whatever its image_count.
C19_ImageNeverCools ==
    [][\A t \in tokens :
          (/\ last'.tok = t
           /\ \/ last'.op = "record_usage" /\ ~last'.flag
              \/ /\ last'.op = "check_and_apply_cooldown"
                 /\ video_count[t] < video_cooldown_threshold)
          => cooled_until'[t] = cooled_until[t]]_vars

C19_Witness ==
    /\ last.op = "check_and_apply_cooldown"
    /\ last.tok \in tokens
    /\ image_count[last.tok] >= video_cooldown_threshold
    /\ video_count[last.tok] < video_cooldown_threshold
    /\ cooled_until[last.tok] = NoTime

\* The step is an add_token call.
IsAddToken == last'.op = "add_token"

\* The rows that hold the secret of the call before the call.
Holders == {t \in tokens : token_value[t] = last'.tok}

\* The call has raised error and written nothing.
Refused(error) == last'.res = error /\ UNCHANGED <<poolVars, admissionVars>>

\* The call has returned the row that held the secret, rewritten with the
\* arguments of the call, and has added no row.
Updated ==
    /\ last'.res \in Holders
    /\ token_value'[last'.res] = last'.tok
    /\ remark'[last'.res] = last'.remark
    /\ tokens' = tokens

C16_EnrichmentNeverRejects ==
    [][(IsAddToken /\ Holders = {} /\ Decodable(last'.tok))
       => /\ last'.res \in tokens' \ tokens
          /\ is_active'[last'.res]
          /\ token_value'[last'.res] = last'.tok
          /\ metadata'[last'.res] = Fields \ last'.failed]_vars

C16_Witness ==
    /\ last.op = "add_token"
    /\ last.failed = Fields
    /\ last.res \in tokens
    /\ is_active[last.res]
    /\ token_value[last.res] = last.tok
    /\ metadata[last.res] = {}

\* C20: a coroutine one of whose store calls has raised ends with that
\* exception raised to its caller.
C20_StoreFailurePropagates ==
    \A p \in Procs : calls[p].failed => calls[p].pc = "raised"

\* C21: a select_token call, for an image or a video request, changes no
\* row, status, counter, cooldown, threshold or lock record; the credential it
\* returns for an image request is not locked by the call.
C21_SelectReadOnly ==
    [][last'.op = "select_token"
       => /\ UNCHANGED <<poolVars, configVars, locks, admissionVars>>
          /\ (last'.flag /\ last'.res \in TokenIds)
                => \/ locks'[last'.res] = NoLock
                   \/ now' - locks'[last'.res] >= LockTimeout]_vars

C21_Witness ==
    /\ Selected
    /\ last.flag
    /\ locks[last.res] = NoLock
    /\ \E t \in tokens : LockIsLocked(t)
    /\ \E t \in tokens : Cooling(t)

\* C22: a record_usage call adds one to video_count of its credential when
\* is_video and to image_count when not, and changes no other counter, no
\* error_count and no status of any credential; no step lowers a usage
\* counter.
C22_RecordUsageFrame ==
    /\ [][\A t \in tokens :
             (last'.op = "record_usage" /\ last'.tok = t)
             => /\ video_count' = [video_count EXCEPT
                                     ![t] = @ + IF last'.flag THEN 1 ELSE 0]
                /\ image_count' = [image_count EXCEPT
                                     ![t] = @ + IF last'.flag THEN 0 ELSE 1]
                /\ UNCHANGED <<tokens, is_active, error_count>>]_vars
    /\ [][\A t \in tokens \cap tokens' :
             /\ video_count'[t] >= video_count[t]
             /\ image_count'[t] >= image_count[t]]_vars

C22_Witness ==
    /\ last.op = "record_usage"
    /\ last.flag
    /\ last.tok \in tokens
    /\ video_count[last.tok] = MaxVideoCount
    /\ image_count[last.tok] > 0
    /\ \E t \in tokens : t # last.tok /\ video_count[t] > 0 /\ ~is_active[t]

====
